---- MODULE Spec2Model ----
(***************************************************************************)
(* Pill Splitter (src/src/App.tsx): the App component's state and its      *)
(* mouse handlers.  Each handler runs to completion on the event loop and  *)
(* React re-renders before the next event is delivered, so one handler is  *)
(* one atomic action over the component state.                             *)
(***************************************************************************)
EXTENDS Integers, Sequences, FiniteSets, TLC

VARIABLES
    pills,           \* useState([])                       ordered Shape Store
    splitLines,      \* useState({x:0,y:0,visible:false})  crosshair
    drawing,         \* useState(false)
    drawStart,       \* useState({x:0,y:0})                anchor of the draw
    tempPill,        \* useState(null)                     draft shape
    draggingPillId,  \* useState(null)
    dragOffset,      \* useState({x:0,y:0})
    uuidCount,       \* number of crypto.randomUUID() results handed out
    last,            \* history: the event just handled
    prev,            \* history: the component state before that event
    tapped,          \* history: the press and release on a pill just completed
    nEvents          \* history: number of events handled so far

vars == <<pills, splitLines, drawing, drawStart, tempPill, draggingPillId,
          dragOffset, uuidCount, last, prev, tapped, nEvents>>

-----------------------------------------------------------------------------
(* Program constants *)

MIN_DRAW_SIZE == 40
MIN_SPLIT_SIZE == 20
BORDER_RADIUS == 20
moveAmount == 10

(* Bounds of the exploration *)

\* Events explored after the initial state.
MaxEvents == 3

\* Pointer coordinates delivered by the host, on each axis: the thresholds of
\* the program.  The pills of InitialStores lie 10 off this grid, so that
\* every comparison of the handlers is met on both sides and on its edge.
Coord == {0, MIN_SPLIT_SIZE, MIN_DRAW_SIZE}
\* e.button: 0 is the primary button, 2 the secondary one.
Buttons == {0, 2}
\* Results of getRandomColor().
Colors == {"#AAAAAA", "#BBBBBB"}

-----------------------------------------------------------------------------
(* Values *)

Null == [null |-> TRUE]
NullId == "null"
TempPillId == "temp-pill"

\* crypto.randomUUID(): the n-th identifier handed out; all are different.
randomUUID(n) == "uuid-" \o ToString(n)

Abs(a) == IF a < 0 THEN -a ELSE a
Min(a, b) == IF a < b THEN a ELSE b

Pill(id, x, y, w, h, color) ==
    [id |-> id, x |-> x, y |-> y, width |-> w, height |-> h,
     color |-> color, borderRadius |-> BORDER_RADIUS]

\* What the history keeps of the state an event was handled in.
Snapshot == [pills |-> pills, drawing |-> drawing, draggingPillId |-> draggingPillId]

Event(type, x, y, button) == [type |-> type, x |-> x, y |-> y, button |-> button]

\* No press and release on a pill has just been completed.
NoTap == [id |-> NullId, x |-> 0, y |-> 0]

\* The release ev comes right after a press on a pill, at the same point.
CompletesTap(ev) ==
    /\ ev.type = "mouseUp"
    /\ last.type = "mouseDownPill"
    /\ ev.x = last.x /\ ev.y = last.y

\* Every handler below is one more event of the history.  tapped keeps the
\* pill and the point of a press followed at once by a release at the same
\* point, until the next event has been handled.
Record(ev) ==
    /\ nEvents < MaxEvents
    /\ nEvents' = nEvents + 1
    /\ last' = ev
    /\ prev' = Snapshot
    /\ tapped' = IF CompletesTap(ev)
                 THEN [id |-> draggingPillId, x |-> ev.x, y |-> ev.y]
                 ELSE NoTap

(***************************************************************************)
(* Initial states: the component as constructed (empty store), or idle     *)
(* again after earlier gestures left pills in the store.  Each store is    *)
(* listed with the events that produce it from the empty store; n is the   *)
(* number of identifiers handed out on the way.                            *)
(***************************************************************************)
InitialStores ==
    { \* as constructed
      [pills |-> <<>>, n |-> 0],
      \* mouseDown(0,0) mouseUp(40,40)
      [pills |-> <<Pill(randomUUID(1), 0, 0, 40, 40, "#AAAAAA")>>, n |-> 1],
      \* ... click(0,10): nudged up
      [pills |-> <<Pill(randomUUID(1), 0, -10, 40, 40, "#AAAAAA")>>, n |-> 1],
      \* ... click(10,0): nudged left
      [pills |-> <<Pill(randomUUID(1), -10, 0, 40, 40, "#BBBBBB")>>, n |-> 1],
      \* ... click(0,20): cut into top and bottom; click(0,10): the top nudged up
      [pills |-> <<Pill(randomUUID(2), 0, -10, 40, 20, "#AAAAAA"),
                   Pill(randomUUID(3), 0, 20, 40, 20, "#AAAAAA")>>, n |-> 3],
      \* ... click(20,0): cut into left and right; click(10,0): the left nudged left
      [pills |-> <<Pill(randomUUID(2), -10, 0, 20, 40, "#BBBBBB"),
                   Pill(randomUUID(3), 20, 0, 20, 40, "#BBBBBB")>>, n |-> 3],
      \* mouseDown(0,0) mouseUp(40,40) mouseDownPill(0,0) mouseMove(40,40)
      \* mouseUp(40,40) mouseDown(0,0) mouseUp(40,40)
      [pills |-> <<Pill(randomUUID(1), 40, 40, 40, 40, "#AAAAAA"),
                   Pill(randomUUID(2), 0, 0, 40, 40, "#BBBBBB")>>, n |-> 2] }

Init ==
    /\ \E s \in InitialStores : pills = s.pills /\ uuidCount = s.n
    /\ splitLines = [x |-> 0, y |-> 0, visible |-> FALSE]
    /\ drawing = FALSE
    /\ drawStart = [x |-> 0, y |-> 0]
    /\ tempPill = Null
    /\ draggingPillId = NullId
    /\ dragOffset = [x |-> 0, y |-> 0]
    /\ last = Event("init", 0, 0, 0)
    /\ prev = Snapshot
    /\ tapped = NoTap
    /\ nEvents = 0

-----------------------------------------------------------------------------
(* handleMouseMove, registered on window *)

normalizeRect(x0, y0, x1, y1) ==
    [x |-> Min(x1, x0), y |-> Min(y1, y0),
     width |-> Abs(x1 - x0), height |-> Abs(y1 - y0)]

resizeTempPill(t, start, cx, cy) ==
    LET r == normalizeRect(start.x, start.y, cx, cy)
    IN  [t EXCEPT !.x = r.x, !.y = r.y, !.width = r.width, !.height = r.height]

\* Mutant: the pill jumps to the pointer, the offset forgotten.
movePill_ToCursor(p, cx, cy, offset) == [p EXCEPT !.x = cx, !.y = cy]

movePill(p, cx, cy, offset) == [p EXCEPT !.x = cx - offset.x, !.y = cy - offset.y]

dragPills(ps, id, cx, cy, offset) ==
    [i \in 1..Len(ps) |-> IF ps[i].id = id THEN movePill(ps[i], cx, cy, offset) ELSE ps[i]]

handleMouseMove(cx, cy) ==
    /\ Record(Event("mouseMove", cx, cy, 0))
    /\ splitLines' = [x |-> cx, y |-> cy, visible |-> TRUE]
    /\ tempPill' = IF drawing /\ tempPill # Null
                   THEN resizeTempPill(tempPill, drawStart, cx, cy)
                   ELSE tempPill
    /\ pills' = IF draggingPillId # NullId
                THEN dragPills(pills, draggingPillId, cx, cy, dragOffset)
                ELSE pills
    /\ UNCHANGED <<drawing, drawStart, draggingPillId, dragOffset, uuidCount>>

-----------------------------------------------------------------------------
(* handleMouseDown on the container *)

\* Mutant: the edges of a pill not counted as the pill.
clickedOnPill_Exclusive(ps, cx, cy) ==
    \E i \in 1..Len(ps) :
        /\ cx > ps[i].x
        /\ cx < ps[i].x + ps[i].width
        /\ cy > ps[i].y
        /\ cy < ps[i].y + ps[i].height

clickedOnPill(ps, cx, cy) ==
    \E i \in 1..Len(ps) :
        /\ cx >= ps[i].x
        /\ cx <= ps[i].x + ps[i].width
        /\ cy >= ps[i].y
        /\ cy <= ps[i].y + ps[i].height

MayStartDrawing(ps, cx, cy, button) == ~clickedOnPill(ps, cx, cy) /\ button = 0

handleMouseDown(cx, cy, button, color) ==
    /\ Record(Event("mouseDown", cx, cy, button))
    /\ IF MayStartDrawing(pills, cx, cy, button)
       THEN /\ drawing' = TRUE
            /\ drawStart' = [x |-> cx, y |-> cy]
            /\ tempPill' = Pill(TempPillId, cx, cy, 0, 0, color)
       ELSE UNCHANGED <<drawing, drawStart, tempPill>>
    /\ UNCHANGED <<pills, splitLines, draggingPillId, dragOffset, uuidCount>>

-----------------------------------------------------------------------------
(* Pill.onMouseDownPill: mousedown on the element of pills[i]; it stops the *)
(* propagation, so the container's handleMouseDown does not run.            *)

\* The pointer is over the element of p: its box is left/top/width/height.
OverPill(p, cx, cy) ==
    /\ p.x <= cx /\ cx < p.x + p.width
    /\ p.y <= cy /\ cy < p.y + p.height

onMouseDownPill(i, cx, cy, button) ==
    /\ OverPill(pills[i], cx, cy)
    /\ Record(Event("mouseDownPill", cx, cy, button))
    /\ draggingPillId' = pills[i].id
    /\ dragOffset' = [x |-> cx - pills[i].x, y |-> cy - pills[i].y]
    /\ UNCHANGED <<pills, splitLines, drawing, drawStart, tempPill, uuidCount>>

-----------------------------------------------------------------------------
(* handleMouseUp, registered on window *)

\* Mutant: a pill of exactly the minimum size refused.
LargeEnoughToDraw_Strict(w, h) == w > MIN_DRAW_SIZE /\ h > MIN_DRAW_SIZE

\* Mutant: one large enough dimension accepted.
LargeEnoughToDraw_Either(w, h) == w >= MIN_DRAW_SIZE \/ h >= MIN_DRAW_SIZE

LargeEnoughToDraw(w, h) == w >= MIN_DRAW_SIZE /\ h >= MIN_DRAW_SIZE

commitPill(ps, start, cx, cy, color, n) ==
    LET r == normalizeRect(start.x, start.y, cx, cy)
    IN  IF LargeEnoughToDraw(r.width, r.height)
        THEN Append(ps, Pill(randomUUID(n + 1), r.x, r.y, r.width, r.height, color))
        ELSE ps

\* Mutant: the held pill not let go.
handleMouseUp_DragStaysHeld(cx, cy) ==
    /\ Record(Event("mouseUp", cx, cy, 0))
    /\ IF drawing
       THEN /\ drawing' = FALSE
            /\ tempPill' = Null
            /\ pills' = commitPill(pills, drawStart, cx, cy, tempPill.color, uuidCount)
            /\ uuidCount' = uuidCount + (Len(pills') - Len(pills))
       ELSE UNCHANGED <<drawing, tempPill, pills, uuidCount>>
    /\ UNCHANGED <<splitLines, drawStart, dragOffset, draggingPillId>>

handleMouseUp(cx, cy) ==
    /\ Record(Event("mouseUp", cx, cy, 0))
    /\ IF drawing
       THEN /\ drawing' = FALSE
            /\ tempPill' = Null
            /\ pills' = commitPill(pills, drawStart, cx, cy, tempPill.color, uuidCount)
            /\ uuidCount' = uuidCount + (Len(pills') - Len(pills))
       ELSE UNCHANGED <<drawing, tempPill, pills, uuidCount>>
    /\ draggingPillId' = NullId
    /\ UNCHANGED <<splitLines, drawStart, dragOffset>>

-----------------------------------------------------------------------------
(* handleClick on the container: the split engine *)

\* Mutant: the top edge taken as inside the pill.
verticalTest_Inclusive(p, splitY) == splitY >= p.y /\ splitY < p.y + p.height

verticalTest(p, splitY) == splitY > p.y /\ splitY < p.y + p.height

\* Mutant: the left edge taken as inside the pill.
horizontalTest_Inclusive(p, splitX) == splitX >= p.x /\ splitX < p.x + p.width

horizontalTest(p, splitX) == splitX > p.x /\ splitX < p.x + p.width

\* Mutant: the bottom part placed at the top of the pill.
splitVertical_BottomAtTop(p, splitY, n) ==
    LET topPartHeight == splitY - p.y
        bottomPartHeight == p.height - topPartHeight
    IN  IF topPartHeight < MIN_SPLIT_SIZE \/ bottomPartHeight < MIN_SPLIT_SIZE
        THEN IF topPartHeight < MIN_SPLIT_SIZE
             THEN <<[p EXCEPT !.y = p.y - moveAmount]>>
             ELSE <<[p EXCEPT !.y = p.y + moveAmount]>>
        ELSE <<Pill(randomUUID(n + 1), p.x, p.y, p.width, topPartHeight, p.color),
               Pill(randomUUID(n + 2), p.x, p.y, p.width, bottomPartHeight, p.color)>>

\* Mutant: the direction of the nudge decided by the bottom part.
splitVertical_BottomFirst(p, splitY, n) ==
    LET topPartHeight == splitY - p.y
        bottomPartHeight == p.height - topPartHeight
    IN  IF topPartHeight < MIN_SPLIT_SIZE \/ bottomPartHeight < MIN_SPLIT_SIZE
        THEN IF bottomPartHeight < MIN_SPLIT_SIZE
             THEN <<[p EXCEPT !.y = p.y + moveAmount]>>
             ELSE <<[p EXCEPT !.y = p.y - moveAmount]>>
        ELSE <<Pill(randomUUID(n + 1), p.x, p.y, p.width, topPartHeight, p.color),
               Pill(randomUUID(n + 2), p.x, splitY, p.width, bottomPartHeight, p.color)>>

\* Mutant: only the top part checked against the minimum size.
splitVertical_TopOnly(p, splitY, n) ==
    LET topPartHeight == splitY - p.y
        bottomPartHeight == p.height - topPartHeight
    IN  IF topPartHeight < MIN_SPLIT_SIZE
        THEN <<[p EXCEPT !.y = p.y - moveAmount]>>
        ELSE <<Pill(randomUUID(n + 1), p.x, p.y, p.width, topPartHeight, p.color),
               Pill(randomUUID(n + 2), p.x, splitY, p.width, bottomPartHeight, p.color)>>

\* Mutant: the parts made by spreading p, its id kept.
splitVertical_KeepsId(p, splitY, n) ==
    LET topPartHeight == splitY - p.y
        bottomPartHeight == p.height - topPartHeight
    IN  IF topPartHeight < MIN_SPLIT_SIZE \/ bottomPartHeight < MIN_SPLIT_SIZE
        THEN IF topPartHeight < MIN_SPLIT_SIZE
             THEN <<[p EXCEPT !.y = p.y - moveAmount]>>
             ELSE <<[p EXCEPT !.y = p.y + moveAmount]>>
        ELSE <<[p EXCEPT !.height = topPartHeight],
               [p EXCEPT !.y = splitY, !.height = bottomPartHeight]>>

\* Lines 140-171: the pill is cut by the horizontal line y = splitY.
splitVertical(p, splitY, n) ==
    LET topPartHeight == splitY - p.y
        bottomPartHeight == p.height - topPartHeight
    IN  IF topPartHeight < MIN_SPLIT_SIZE \/ bottomPartHeight < MIN_SPLIT_SIZE
        THEN IF topPartHeight < MIN_SPLIT_SIZE
             THEN <<[p EXCEPT !.y = p.y - moveAmount]>>
             ELSE <<[p EXCEPT !.y = p.y + moveAmount]>>
        ELSE <<Pill(randomUUID(n + 1), p.x, p.y, p.width, topPartHeight, p.color),
               Pill(randomUUID(n + 2), p.x, splitY, p.width, bottomPartHeight, p.color)>>

\* Mutant: the right part placed at the left of the pill.
splitHorizontal_RightAtLeft(p, splitX, n) ==
    LET leftPartWidth == splitX - p.x
        rightPartWidth == p.width - leftPartWidth
    IN  IF leftPartWidth < MIN_SPLIT_SIZE \/ rightPartWidth < MIN_SPLIT_SIZE
        THEN IF leftPartWidth < MIN_SPLIT_SIZE
             THEN <<[p EXCEPT !.x = p.x - moveAmount]>>
             ELSE <<[p EXCEPT !.x = p.x + moveAmount]>>
        ELSE <<Pill(randomUUID(n + 1), p.x, p.y, leftPartWidth, p.height, p.color),
               Pill(randomUUID(n + 2), p.x, p.y, rightPartWidth, p.height, p.color)>>

\* Mutant: the right part as wide as the whole pill.
splitHorizontal_RightFullWidth(p, splitX, n) ==
    LET leftPartWidth == splitX - p.x
        rightPartWidth == p.width - leftPartWidth
    IN  IF leftPartWidth < MIN_SPLIT_SIZE \/ rightPartWidth < MIN_SPLIT_SIZE
        THEN IF leftPartWidth < MIN_SPLIT_SIZE
             THEN <<[p EXCEPT !.x = p.x - moveAmount]>>
             ELSE <<[p EXCEPT !.x = p.x + moveAmount]>>
        ELSE <<Pill(randomUUID(n + 1), p.x, p.y, leftPartWidth, p.height, p.color),
               Pill(randomUUID(n + 2), splitX, p.y, p.width, p.height, p.color)>>

\* Lines 176-206: the pill is cut by the vertical line x = splitX.
splitHorizontal(p, splitX, n) ==
    LET leftPartWidth == splitX - p.x
        rightPartWidth == p.width - leftPartWidth
    IN  IF leftPartWidth < MIN_SPLIT_SIZE \/ rightPartWidth < MIN_SPLIT_SIZE
        THEN IF leftPartWidth < MIN_SPLIT_SIZE
             THEN <<[p EXCEPT !.x = p.x - moveAmount]>>
             ELSE <<[p EXCEPT !.x = p.x + moveAmount]>>
        ELSE <<Pill(randomUUID(n + 1), p.x, p.y, leftPartWidth, p.height, p.color),
               Pill(randomUUID(n + 2), splitX, p.y, rightPartWidth, p.height, p.color)>>

\* Mutant: the horizontal test not held back by splitPerformed.
splitPill_NoFlag(p, splitX, splitY, n) ==
    (IF verticalTest(p, splitY) THEN splitVertical(p, splitY, n) ELSE <<>>)
      \o (IF horizontalTest(p, splitX) THEN splitHorizontal(p, splitX, n + 2) ELSE <<>>)
      \o (IF ~verticalTest(p, splitY) /\ ~horizontalTest(p, splitX) THEN <<p>> ELSE <<>>)

\* Mutant: a pill that neither line runs inside is not pushed back.
splitPill_DropsUntouched(p, splitX, splitY, n) ==
    IF verticalTest(p, splitY)
    THEN splitVertical(p, splitY, n)
    ELSE IF horizontalTest(p, splitX)
         THEN splitHorizontal(p, splitX, n)
         ELSE <<>>

\* The body of prevPills.forEach: what one pill pushes onto newPills, n being
\* the number of identifiers handed out before it.
splitPill(p, splitX, splitY, n) ==
    IF verticalTest(p, splitY)
    THEN splitVertical(p, splitY, n)
    ELSE IF horizontalTest(p, splitX)
         THEN splitHorizontal(p, splitX, n)
         ELSE <<p>>

\* Identifiers one pill consumes: two when it is cut, none otherwise.
uuidsUsed(out) == IF Len(out) = 2 THEN 2 ELSE 0

\* Mutant: each pill's output put in front of newPills instead of pushed.
RECURSIVE splitFrom_Reversed(_, _, _, _, _)
splitFrom_Reversed(ps, i, splitX, splitY, n) ==
    IF i > Len(ps)
    THEN <<>>
    ELSE LET out == splitPill(ps[i], splitX, splitY, n)
         IN  splitFrom_Reversed(ps, i + 1, splitX, splitY, n + uuidsUsed(out)) \o out

RECURSIVE splitFrom(_, _, _, _, _)
splitFrom(ps, i, splitX, splitY, n) ==
    IF i > Len(ps)
    THEN <<>>
    ELSE LET out == splitPill(ps[i], splitX, splitY, n)
         IN  out \o splitFrom(ps, i + 1, splitX, splitY, n + uuidsUsed(out))

applySplit(ps, splitX, splitY, n) == splitFrom(ps, 1, splitX, splitY, n)

RECURSIVE countSplits(_, _, _, _)
countSplits(ps, i, splitX, splitY) ==
    IF i > Len(ps)
    THEN 0
    ELSE uuidsUsed(splitPill(ps[i], splitX, splitY, 0))
           + countSplits(ps, i + 1, splitX, splitY)

\* Mutant: the click held back only while drawing.
ClickIgnored_DrawingOnly == drawing

ClickIgnored == drawing \/ draggingPillId # NullId

handleClick(cx, cy) ==
    /\ Record(Event("click", cx, cy, 0))
    /\ IF ClickIgnored
       THEN UNCHANGED <<pills, uuidCount>>
       ELSE /\ pills' = applySplit(pills, cx, cy, uuidCount)
            /\ uuidCount' = uuidCount + countSplits(pills, 1, cx, cy)
    /\ UNCHANGED <<splitLines, drawing, drawStart, tempPill, draggingPillId, dragOffset>>

-----------------------------------------------------------------------------
(* handleMouseLeave, registered on window *)

\* Mutant: the crosshair put back to its initial value.
handleMouseLeave_Reset ==
    /\ Record(Event("mouseLeave", 0, 0, 0))
    /\ splitLines' = [x |-> 0, y |-> 0, visible |-> FALSE]
    /\ UNCHANGED <<pills, drawing, drawStart, tempPill, draggingPillId, dragOffset, uuidCount>>

handleMouseLeave ==
    /\ Record(Event("mouseLeave", 0, 0, 0))
    /\ splitLines' = [splitLines EXCEPT !.visible = FALSE]
    /\ UNCHANGED <<pills, drawing, drawStart, tempPill, draggingPillId, dragOffset, uuidCount>>

-----------------------------------------------------------------------------
(* The host delivers any event at any time *)

MouseMove == \E cx \in Coord, cy \in Coord : handleMouseMove(cx, cy)

MouseDown ==
    \E cx \in Coord, cy \in Coord, b \in Buttons, c \in Colors : handleMouseDown(cx, cy, b, c)

MouseDownPill ==
    \E i \in 1..Len(pills), cx \in Coord, cy \in Coord, b \in Buttons :
        onMouseDownPill(i, cx, cy, b)

MouseUp == \E cx \in Coord, cy \in Coord : handleMouseUp(cx, cy)

Click == \E cx \in Coord, cy \in Coord : handleClick(cx, cy)

MouseLeave == handleMouseLeave

Next ==
    \/ MouseMove
    \/ MouseDown
    \/ MouseDownPill
    \/ MouseUp
    \/ Click
    \/ MouseLeave

Spec == Init /\ [][Next]_vars

-----------------------------------------------------------------------------
(* Vocabulary of the properties *)

Idle == ~drawing /\ draggingPillId = NullId
WasIdle == ~prev.drawing /\ prev.draggingPillId = NullId

\* The event being handled in a step, and the one handled to reach a state.
Handling(type) == last'.type = type
Handled(type) == last.type = type

Ids(ps) == {ps[i].id : i \in 1..Len(ps)}

\* sy lies strictly inside the vertical span of p; sx inside its horizontal span.
InsideV(p, sy) == p.y < sy /\ sy < p.y + p.height
InsideH(p, sx) == p.x < sx /\ sx < p.x + p.width

\* The vertical rule cuts p in two; the horizontal rule does.
CutV(p, sy) == InsideV(p, sy) /\ sy - p.y >= 20 /\ p.height - (sy - p.y) >= 20
CutH(p, sx, sy) == ~InsideV(p, sy) /\ InsideH(p, sx)
                     /\ sx - p.x >= 20 /\ p.width - (sx - p.x) >= 20

\* Number of shapes that stand for p after a click at (sx, sy).
Pieces(p, sx, sy) == IF CutV(p, sy) \/ CutH(p, sx, sy) THEN 2 ELSE 1

\* Index in the store after the click of the first shape that stands for ps[i].
RECURSIVE PlaceOf(_, _, _, _)
PlaceOf(ps, i, sx, sy) ==
    IF i = 1 THEN 1 ELSE PlaceOf(ps, i - 1, sx, sy) + Pieces(ps[i - 1], sx, sy)

\* The store after the click has one place for every piece of every shape.
Fits(ps, out, sx, sy) == Len(out) = PlaceOf(ps, Len(ps) + 1, sx, sy) - 1

\* The shapes of out that stand for ps[i].
Replacement(ps, out, i, sx, sy) ==
    LET k == PlaceOf(ps, i, sx, sy)
    IN  SubSeq(out, k, k + Pieces(ps[i], sx, sy) - 1)

\* A shape given by its fields other than the id.
Body(p) == [x |-> p.x, y |-> p.y, width |-> p.width, height |-> p.height,
            color |-> p.color, borderRadius |-> p.borderRadius]
Shape(x, y, w, h, color) ==
    [x |-> x, y |-> y, width |-> w, height |-> h, color |-> color, borderRadius |-> 20]

\* id is carried by no shape of ps and by exactly one shape of out.
FreshId(id, ps, out) ==
    /\ id \notin Ids(ps)
    /\ Cardinality({k \in 1..Len(out) : out[k].id = id}) = 1

-----------------------------------------------------------------------------
\* C1: the click that the pointing device emits for the release that ended a
\* Drawing or Dragging gesture (same position, next event) leaves the Shape
\* Store as the pointerUp left it.
C1_ReleaseClickSuppressed ==
    [][ ( /\ Handled("mouseUp")
          /\ ~WasIdle
          /\ Handling("click")
          /\ last'.x = last.x /\ last'.y = last.y )
        => pills' = pills ]_vars

\* C2: the drawing flag and a dragged pill id are never set together.
C2_DrawingDraggingExclusive == ~(drawing /\ draggingPillId # NullId)

\* The click handled in a step reaches the split engine at (last'.x, last'.y).
ClickInIdle == Handling("click") /\ Idle
\* The click handled to reach a state reached the split engine at (last.x, last.y).
ClickedInIdle == Handled("click") /\ WasIdle

\* C3: a click in Idle whose sy lies strictly inside p with both parts at least
\* 20 high replaces p by its top part and its bottom part, in that order: same
\* x, width and color, corner radius 20, heights adding up to p.height, fresh ids.
C3_VerticalSplit ==
    [][ ClickInIdle =>
        LET sx == last'.x
            sy == last'.y
        IN  \A i \in 1..Len(pills) :
                CutV(pills[i], sy) =>
                    /\ Fits(pills, pills', sx, sy)
                    /\ LET p == pills[i]
                           r == Replacement(pills, pills', i, sx, sy)
                           topH == sy - p.y
                           botH == p.height - topH
                       IN  /\ Len(r) = 2
                           /\ Body(r[1]) = Shape(p.x, p.y, p.width, topH, p.color)
                           /\ Body(r[2]) = Shape(p.x, sy, p.width, botH, p.color)
                           /\ r[1].height + r[2].height = p.height
                           /\ FreshId(r[1].id, pills, pills')
                           /\ FreshId(r[2].id, pills, pills')
                           /\ p.id \notin Ids(pills') ]_vars

C3_Witness ==
    /\ ClickedInIdle
    /\ \E i \in 1..Len(prev.pills) : CutV(prev.pills[i], last.y)
    /\ Len(pills) > Len(prev.pills)

\* C4: a click in Idle whose sy lies strictly inside p with the top or the bottom
\* part under 20 replaces p by p itself moved up by 10 when the top part is
\* under 20 (also when both are) and down by 10 otherwise.
C4_VerticalNudge ==
    [][ ClickInIdle =>
        LET sx == last'.x
            sy == last'.y
        IN  \A i \in 1..Len(pills) :
                LET p == pills[i]
                    topH == sy - p.y
                    botH == p.height - topH
                IN  (InsideV(p, sy) /\ (topH < 20 \/ botH < 20)) =>
                        /\ Fits(pills, pills', sx, sy)
                        /\ Replacement(pills, pills', i, sx, sy)
                             = << [p EXCEPT !.y = IF topH < 20 THEN p.y - 10 ELSE p.y + 10] >> ]_vars

\* Both parts were undersized and the pill went up.
C4_Witness ==
    /\ ClickedInIdle
    /\ Len(pills) = Len(prev.pills)
    /\ \E i \in 1..Len(prev.pills) :
           LET p == prev.pills[i]
           IN  /\ InsideV(p, last.y)
               /\ last.y - p.y < 20
               /\ p.height - (last.y - p.y) < 20
               /\ pills[i].y = p.y - 10

\* C5: a click leaves one or two shapes for every shape of the store, and a
\* shape with the click point strictly inside it on both axes keeps its x and
\* width: only the vertical rule is applied to it.
C5_OneChangePerShape ==
    [][ ClickInIdle =>
        LET sx == last'.x
            sy == last'.y
        IN  /\ Fits(pills, pills', sx, sy)
            /\ Len(pills') <= 2 * Len(pills)
            /\ \A i \in 1..Len(pills) :
                   LET p == pills[i]
                       r == Replacement(pills, pills', i, sx, sy)
                   IN  (InsideV(p, sy) /\ InsideH(p, sx)) =>
                           \A k \in 1..Len(r) : r[k].x = p.x /\ r[k].width = p.width ]_vars

C5_Witness ==
    /\ ClickedInIdle
    /\ pills # prev.pills
    /\ \E i \in 1..Len(prev.pills) :
           InsideV(prev.pills[i], last.y) /\ InsideH(prev.pills[i], last.x)

\* C6: a click in Idle whose sy is not strictly inside p and whose sx is: with
\* both parts at least 20 wide p is replaced by its left part and its right
\* part, with p's color and fresh ids; otherwise by p itself moved left by 10
\* when the left part is under 20 and right by 10 otherwise.
C6_HorizontalRule ==
    [][ ClickInIdle =>
        LET sx == last'.x
            sy == last'.y
        IN  \A i \in 1..Len(pills) :
                LET p == pills[i]
                    leftW == sx - p.x
                    rightW == p.width - leftW
                IN  (~InsideV(p, sy) /\ InsideH(p, sx)) =>
                        /\ Fits(pills, pills', sx, sy)
                        /\ LET r == Replacement(pills, pills', i, sx, sy)
                           IN  IF leftW >= 20 /\ rightW >= 20
                               THEN /\ Len(r) = 2
                                    /\ Body(r[1]) = Shape(p.x, p.y, leftW, p.height, p.color)
                                    /\ Body(r[2]) = Shape(sx, p.y, rightW, p.height, p.color)
                                    /\ FreshId(r[1].id, pills, pills')
                                    /\ FreshId(r[2].id, pills, pills')
                               ELSE r = << [p EXCEPT !.x = IF leftW < 20 THEN p.x - 10
                                                                         ELSE p.x + 10] >> ]_vars

\* The pill was cut into left and right.
C6_Witness ==
    /\ ClickedInIdle
    /\ Len(pills) > Len(prev.pills)
    /\ \E i \in 1..Len(prev.pills) : CutH(prev.pills[i], last.x, last.y)

\* C7 as stated: a click at a point outside the bounds of every shape leaves
\* the Shape Store unchanged.
C7_OutsideBoundsUnchanged ==
    [][ ( /\ ClickInIdle
          /\ \A i \in 1..Len(pills) :
                 ~( /\ pills[i].x <= last'.x /\ last'.x <= pills[i].x + pills[i].width
                    /\ pills[i].y <= last'.y /\ last'.y <= pills[i].y + pills[i].height ) )
        => pills' = pills ]_vars

\* C7 as amended: a click whose horizontal line runs strictly inside no shape's
\* vertical span and whose vertical line runs strictly inside no shape's
\* horizontal span leaves the Shape Store unchanged, field for field.
C7_MissedStoreUnchanged ==
    [][ ( /\ Handling("click")
          /\ \A i \in 1..Len(pills) :
                 ~InsideV(pills[i], last'.y) /\ ~InsideH(pills[i], last'.x) )
        => pills' = pills ]_vars

C7_Witness ==
    /\ ClickedInIdle
    /\ prev.pills # <<>>
    /\ \A i \in 1..Len(prev.pills) :
           ~InsideV(prev.pills[i], last.y) /\ ~InsideH(prev.pills[i], last.x)
    /\ pills = prev.pills

\* C8: a split line on an edge of p does not act on that axis: with sy on the
\* top or bottom edge p keeps its y and height, with sx on the left or right
\* edge p keeps its x and width, and a shape that neither line runs strictly
\* inside is emitted as it is.
C8_StrictBoundaries ==
    [][ ClickInIdle =>
        LET sx == last'.x
            sy == last'.y
        IN  /\ Fits(pills, pills', sx, sy)
            /\ \A i \in 1..Len(pills) :
                   LET p == pills[i]
                       r == Replacement(pills, pills', i, sx, sy)
                   IN  /\ (sy = p.y \/ sy = p.y + p.height) =>
                              \A k \in 1..Len(r) : r[k].y = p.y /\ r[k].height = p.height
                       /\ (sx = p.x \/ sx = p.x + p.width) =>
                              \A k \in 1..Len(r) : r[k].x = p.x /\ r[k].width = p.width
                       /\ (~InsideV(p, sy) /\ ~InsideH(p, sx)) => r = <<p>> ]_vars

\* The click was on the bottom edge of a pill and strictly inside it on x:
\* the horizontal rule acted, the vertical one did not.
C8_Witness ==
    /\ ClickedInIdle
    /\ pills # prev.pills
    /\ \E i \in 1..Len(prev.pills) :
           /\ last.y = prev.pills[i].y + prev.pills[i].height
           /\ InsideH(prev.pills[i], last.x)

\* C9: the anchor of a draw is where the background pointerDown that started
\* it was, and a pointerUp at P that ends it at least 40 wide and 40 high
\* appends exactly one shape: the rect spanned by anchor and P, the draft's
\* color, corner radius 20, an id not in the store; the shapes already in the
\* store stay as they are, in their order.
C9_DrawCommit ==
    [][ /\ (drawStart' # drawStart \/ (drawing' /\ ~drawing)) =>
               (Handling("mouseDown") /\ drawStart' = [x |-> last'.x, y |-> last'.y])
        /\ ( /\ Handling("mouseUp")
             /\ drawing
             /\ Abs(last'.x - drawStart.x) >= 40
             /\ Abs(last'.y - drawStart.y) >= 40 )
           => /\ Len(pills') = Len(pills) + 1
              /\ SubSeq(pills', 1, Len(pills)) = pills
              /\ Body(pills'[Len(pills')])
                   = Shape(Min(drawStart.x, last'.x), Min(drawStart.y, last'.y),
                           Abs(last'.x - drawStart.x), Abs(last'.y - drawStart.y),
                           tempPill.color)
              /\ pills'[Len(pills')].id \notin Ids(pills) ]_vars

\* A draw was committed into a store that held a pill already.
C9_Witness ==
    /\ Handled("mouseUp")
    /\ prev.drawing
    /\ prev.pills # <<>>
    /\ Len(pills) = Len(prev.pills) + 1
    /\ pills[Len(pills)].width = Abs(last.x - drawStart.x)
    /\ pills[Len(pills)].height = Abs(last.y - drawStart.y)

\* C10: a pointerUp at P that ends a draw less than 40 wide or less than 40
\* high leaves the Shape Store unchanged, discards the draft and leaves the
\* machine Idle.
C10_SmallDrawDiscarded ==
    [][ ( /\ Handling("mouseUp")
          /\ drawing
          /\ (Abs(last'.x - drawStart.x) < 40 \/ Abs(last'.y - drawStart.y) < 40) )
        => /\ pills' = pills
           /\ tempPill' = Null
           /\ ~drawing'
           /\ draggingPillId' = NullId ]_vars

\* A draw wide enough but not high enough, or the reverse, was dropped.
C10_Witness ==
    /\ Handled("mouseUp")
    /\ prev.drawing
    /\ (Abs(last.x - drawStart.x) < 40) # (Abs(last.y - drawStart.y) < 40)
    /\ pills = prev.pills
    /\ tempPill = Null
    /\ Idle

\* C11: a pointerDown at D on shape s records s's id and the offset D - (s.x, s.y),
\* nothing but a pointerDown on a shape changes that offset, and every
\* pointerMove to (mx, my) of the drag puts the shape of that id at
\* (mx, my) - offset, its other fields and every other shape left as they were.
C11_DragInvariant ==
    [][ /\ Handling("mouseDownPill") =>
               /\ pills' = pills
               /\ \E i \in 1..Len(pills) :
                      /\ pills[i].id = draggingPillId'
                      /\ dragOffset' = [x |-> last'.x - pills[i].x, y |-> last'.y - pills[i].y]
        /\ (dragOffset' # dragOffset \/ draggingPillId' \notin {draggingPillId, NullId}) =>
               Handling("mouseDownPill")
        /\ (Handling("mouseMove") /\ draggingPillId # NullId) =>
               /\ Len(pills') = Len(pills)
               /\ \E i \in 1..Len(pills) : pills[i].id = draggingPillId
               /\ \A i \in 1..Len(pills) :
                      pills'[i] = IF pills[i].id = draggingPillId
                                  THEN [pills[i] EXCEPT !.x = last'.x - dragOffset.x,
                                                        !.y = last'.y - dragOffset.y]
                                  ELSE pills[i] ]_vars

\* A pill held off its corner was moved, next to a pill that stayed.
C11_Witness ==
    /\ Handled("mouseMove")
    /\ prev.draggingPillId # NullId
    /\ dragOffset.x # 0 /\ dragOffset.y # 0
    /\ Len(pills) = 2
    /\ \E i \in 1..2 : pills[i] # prev.pills[i] /\ pills[3 - i] = prev.pills[3 - i]

\* C12: every shape of the Shape Store is at least 20 wide and 20 high.
C12_MinimumSize ==
    \A i \in 1..Len(pills) : pills[i].width >= 20 /\ pills[i].height >= 20

\* A click cut a pill into parts of which one is exactly 20 high or wide.
C12_Witness ==
    /\ ClickedInIdle
    /\ Len(pills) > Len(prev.pills)
    /\ \E i \in 1..Len(pills) :
           /\ pills[i].id \notin Ids(prev.pills)
           /\ (pills[i].width = 20 \/ pills[i].height = 20)

\* C13: no two shapes of the Shape Store have the same id.
C13_UniqueIds ==
    \A i, j \in 1..Len(pills) : i # j => pills[i].id # pills[j].id

\* One click cut two pills: four new ids at once.
C13_Witness ==
    /\ ClickedInIdle
    /\ Len(prev.pills) = 2
    /\ Len(pills) = 4
    /\ Ids(pills) \cap Ids(prev.pills) = {}

\* The split engine as section 4.2 of the specification words it: the shapes,
\* ids left aside, that stand for p after a click at (sx, sy).
RefBodies(p, sx, sy) ==
    LET b == Body(p)
        topH == sy - p.y
        botH == p.height - topH
        leftW == sx - p.x
        rightW == p.width - leftW
    IN  IF InsideV(p, sy)
        THEN IF topH < 20 \/ botH < 20
             THEN << [b EXCEPT !.y = IF topH < 20 THEN p.y - 10 ELSE p.y + 10] >>
             ELSE << [b EXCEPT !.height = topH], [b EXCEPT !.y = sy, !.height = botH] >>
        ELSE IF InsideH(p, sx)
             THEN IF leftW < 20 \/ rightW < 20
                  THEN << [b EXCEPT !.x = IF leftW < 20 THEN p.x - 10 ELSE p.x + 10] >>
                  ELSE << [b EXCEPT !.width = leftW], [b EXCEPT !.x = sx, !.width = rightW] >>
             ELSE << b >>

Bodies(ps) == [k \in 1..Len(ps) |-> Body(ps[k])]

\* C14: a click in Idle replaces the Shape Store by the split engine's result
\* for the store and the click point; a click while Drawing or Dragging leaves
\* the Shape Store, the draft and the interaction state as they were.
C14_ClickOnlyInIdle ==
    [][ Handling("click") =>
        LET sx == last'.x
            sy == last'.y
        IN  /\ UNCHANGED <<drawing, draggingPillId, tempPill, drawStart, dragOffset>>
            /\ IF Idle
               THEN /\ Fits(pills, pills', sx, sy)
                    /\ \A i \in 1..Len(pills) :
                           LET r == Replacement(pills, pills', i, sx, sy)
                           IN  /\ Bodies(r) = RefBodies(pills[i], sx, sy)
                               /\ IF Len(r) = 1
                                  THEN r[1].id = pills[i].id
                                  ELSE \A k \in 1..Len(r) : FreshId(r[k].id, pills, pills')
               ELSE pills' = pills ]_vars

\* A click while a pill was held, its lines running strictly inside that pill,
\* changed nothing.
C14_Witness ==
    /\ Handled("click")
    /\ prev.draggingPillId # NullId
    /\ \E i \in 1..Len(prev.pills) :
           /\ prev.pills[i].id = prev.draggingPillId
           /\ InsideV(prev.pills[i], last.y)
           /\ InsideH(prev.pills[i], last.x)
    /\ pills = prev.pills

\* C15: every pointerMove to P, in any interaction state, sets the crosshair to
\* (P.x, P.y, visible); pointerLeave only clears visible: the crosshair keeps
\* its x and y, and the interaction state, the draft, the anchor, the drag
\* offset and the Shape Store stay as they were.
C15_CrosshairTracking ==
    [][ /\ Handling("mouseMove") =>
               splitLines' = [x |-> last'.x, y |-> last'.y, visible |-> TRUE]
        /\ Handling("mouseLeave") =>
               /\ splitLines' = [x |-> splitLines.x, y |-> splitLines.y, visible |-> FALSE]
               /\ UNCHANGED <<pills, drawing, draggingPillId, tempPill, drawStart, dragOffset>> ]_vars

\* The pointer left during a gesture, after a move away from the origin.
C15_Witness ==
    /\ Handled("mouseLeave")
    /\ ~Idle
    /\ ~splitLines.visible
    /\ splitLines.x # 0
    /\ splitLines.y # 0

\* Number of shapes of ps that a click at (sx, sy) cuts in two.
NumCut(ps, sx, sy) ==
    Cardinality({i \in 1..Len(ps) : CutV(ps[i], sy) \/ CutH(ps[i], sx, sy)})

\* C16: the number of shapes never goes down; pointerDown, pointerMove,
\* pointerLeave, the pointerUp of a drag and nudges keep it, a committed draw
\* adds one, a click adds one per shape it cuts; and a shape's id leaves the
\* store only when the shape is cut.
C16_ShapesNeverLost ==
    [][ /\ Len(pills') >= Len(pills)
        /\ (Handling("mouseMove") \/ Handling("mouseLeave")
              \/ Handling("mouseDown") \/ Handling("mouseDownPill")) =>
               Len(pills') = Len(pills)
        /\ Handling("mouseUp") =>
               Len(pills') = Len(pills)
                  + (IF /\ drawing
                        /\ Abs(last'.x - drawStart.x) >= 40
                        /\ Abs(last'.y - drawStart.y) >= 40 THEN 1 ELSE 0)
        /\ Handling("click") =>
               Len(pills') = Len(pills)
                  + (IF Idle THEN NumCut(pills, last'.x, last'.y) ELSE 0)
        /\ \A i \in 1..Len(pills) :
               \/ pills[i].id \in Ids(pills')
               \/ /\ ClickInIdle
                  /\ CutV(pills[i], last'.y) \/ CutH(pills[i], last'.x, last'.y) ]_vars

\* Of two pills a click cut one and kept the other.
C16_Witness ==
    /\ ClickedInIdle
    /\ Len(prev.pills) = 2
    /\ Len(pills) = 3
    /\ Cardinality(Ids(pills) \cap Ids(prev.pills)) = 1

\* P lies in the bounds of p, edges included.
InBounds(p, px, py) ==
    /\ p.x <= px /\ px <= p.x + p.width
    /\ p.y <= py /\ py <= p.y + p.height

\* C17: a pointerDown on the background at P in Idle leaves the Shape Store
\* unchanged; with the primary button and P in no shape's bounds, edges
\* included, it starts Drawing with anchor P and a draft at P of width 0 and
\* height 0; otherwise the machine stays Idle with no draft.
C17_DrawStart ==
    [][ (Handling("mouseDown") /\ Idle) =>
        /\ pills' = pills
        /\ IF /\ last'.button = 0
              /\ \A i \in 1..Len(pills) : ~InBounds(pills[i], last'.x, last'.y)
           THEN /\ drawing'
                /\ draggingPillId' = NullId
                /\ drawStart' = [x |-> last'.x, y |-> last'.y]
                /\ tempPill' # Null
                /\ tempPill'.x = last'.x /\ tempPill'.y = last'.y
                /\ tempPill'.width = 0 /\ tempPill'.height = 0
           ELSE /\ ~drawing'
                /\ draggingPillId' = NullId
                /\ tempPill' = Null ]_vars

\* A primary pointerDown on the edge of a pill, inside no pill: still Idle.
C17_Witness ==
    /\ Handled("mouseDown")
    /\ WasIdle
    /\ last.button = 0
    /\ \E i \in 1..Len(prev.pills) : InBounds(prev.pills[i], last.x, last.y)
    /\ \A i \in 1..Len(prev.pills) :
           ~(InsideV(prev.pills[i], last.y) /\ InsideH(prev.pills[i], last.x))
    /\ Idle
    /\ tempPill = Null

\* C18: only a pointerUp takes the machine from Drawing or Dragging to Idle:
\* pointerMove, click and pointerLeave leave an open gesture open; and after
\* every pointerUp the machine is Idle, with no draft.
C18_GestureEndsByPointerUp ==
    [][ /\ (~Idle /\ Idle') => Handling("mouseUp")
        /\ (Handling("mouseMove") \/ Handling("click") \/ Handling("mouseLeave")) =>
               /\ drawing' = drawing
               /\ draggingPillId' = draggingPillId
        /\ Handling("mouseUp") =>
               /\ ~drawing'
               /\ draggingPillId' = NullId
               /\ tempPill' = Null ]_vars

\* A pointerUp let go of a held pill.
C18_Witness ==
    /\ Handled("mouseUp")
    /\ prev.draggingPillId # NullId
    /\ Idle
    /\ tempPill = Null

\* C19: the draft exists exactly while Drawing, no shape of the Shape Store
\* has the draft's id, and a pointerMove to P during Drawing leaves the Shape
\* Store unchanged and sets the draft to the rect spanned by the anchor and P,
\* its color kept.
C19_DraftOnlyWhileDrawing ==
    /\ [](/\ (tempPill # Null) <=> drawing
          /\ tempPill # Null => tempPill.id \notin Ids(pills))
    /\ [][ (Handling("mouseMove") /\ drawing) =>
               /\ pills' = pills
               /\ tempPill' = [tempPill EXCEPT
                                 !.x = Min(drawStart.x, last'.x),
                                 !.y = Min(drawStart.y, last'.y),
                                 !.width = Abs(last'.x - drawStart.x),
                                 !.height = Abs(last'.y - drawStart.y)] ]_vars

\* The replacements of ps[i], ps[i+1], ... one after the other, ids left aside.
RECURSIVE RefStore(_, _, _, _)
RefStore(ps, i, sx, sy) ==
    IF i > Len(ps)
    THEN <<>>
    ELSE RefBodies(ps[i], sx, sy) \o RefStore(ps, i + 1, sx, sy)

\* Index of the shape of ps that carries id.
IndexOf(ps, id) == CHOOSE k \in 1..Len(ps) : ps[k].id = id

\* C20: the store after a click is the replacements of the shapes (the shape
\* itself, its nudged copy, or its two parts, top then bottom or left then
\* right) one after the other in the order of the shapes before the click; two
\* shapes that keep their id keep their relative order.
C20_OrderPreserved ==
    [][ ClickInIdle =>
        /\ Bodies(pills') = RefStore(pills, 1, last'.x, last'.y)
        /\ \A i, j \in 1..Len(pills) :
               ( /\ i < j
                 /\ pills[i].id \in Ids(pills')
                 /\ pills[j].id \in Ids(pills') )
               => IndexOf(pills', pills[i].id) < IndexOf(pills', pills[j].id) ]_vars

\* One click cut both pills of the store, which differ.
C20_Witness ==
    /\ ClickedInIdle
    /\ Len(prev.pills) = 2
    /\ Len(pills) = 4
    /\ Body(prev.pills[1]) # Body(prev.pills[2])

-----------------------------------------------------------------------------
\* The press on a pill handled in a step.
Pressing == Handling("mouseDownPill")
\* The release handled in a step follows at once a press on a pill, at its point.
ReleasingTap ==
    /\ Handled("mouseDownPill")
    /\ Handling("mouseUp")
    /\ last'.x = last.x /\ last'.y = last.y
\* The click handled in a step follows at once a press and release on a pill,
\* at their point.
ClickingTap ==
    /\ tapped.id # NullId
    /\ Handling("click")
    /\ last'.x = tapped.x /\ last'.y = tapped.y

\* C21: for a press on a shape s at P, a release at P and a click at P, with
\* nothing handled in between, the press and the release leave the Shape Store
\* unchanged and the click applies the split engine at P to it: when
\* s.y + 20 <= P.y <= s.y + s.height - 20 with P.y strictly inside s, s is
\* replaced by its top part and its bottom part.
C21_TapStillSplits ==
    /\ [][ Pressing => pills' = pills ]_vars
    /\ [][ ReleasingTap => pills' = pills ]_vars
    /\ [][ ClickingTap =>
           LET sx == last'.x
               sy == last'.y
           IN  /\ Bodies(pills') = RefStore(pills, 1, sx, sy)
               /\ \A i \in 1..Len(pills) :
                      ( /\ pills[i].id = tapped.id
                        /\ pills[i].y + 20 <= sy
                        /\ sy <= pills[i].y + pills[i].height - 20
                        /\ InsideV(pills[i], sy) )
                      => LET p == pills[i]
                             r == Replacement(pills, pills', i, sx, sy)
                         IN  /\ Fits(pills, pills', sx, sy)
                             /\ Len(r) = 2
                             /\ Body(r[1]) = Shape(p.x, p.y, p.width, sy - p.y, p.color)
                             /\ Body(r[2]) = Shape(p.x, sy, p.width,
                                                   p.height - (sy - p.y), p.color)
                             /\ p.id \notin Ids(pills') ]_vars

-----------------------------------------------------------------------------
\* The sum of width * height over the shapes ps[i..].
RECURSIVE AreaFrom(_, _)
AreaFrom(ps, i) ==
    IF i > Len(ps) THEN 0 ELSE ps[i].width * ps[i].height + AreaFrom(ps, i + 1)

TotalArea(ps) == AreaFrom(ps, 1)

\* The release handled in a step ends a draw of at least 40 by 40.
CommittingDraw ==
    /\ Handling("mouseUp")
    /\ drawing
    /\ Abs(last'.x - drawStart.x) >= 40
    /\ Abs(last'.y - drawStart.y) >= 40

\* C22: the total area of the Shape Store is left unchanged by every click,
\* every pointerMove while a pill is held, every pointerUp that commits nothing
\* and every pointerLeave; a committed draw appends one shape and the total
\* grows by exactly that shape's width * height.
C22_AreaConserved ==
    [][ /\ Handling("click") => TotalArea(pills') = TotalArea(pills)
        /\ (Handling("mouseMove") /\ draggingPillId # NullId)
               => TotalArea(pills') = TotalArea(pills)
        /\ Handling("mouseLeave") => TotalArea(pills') = TotalArea(pills)
        /\ (Handling("mouseUp") /\ ~CommittingDraw)
               => TotalArea(pills') = TotalArea(pills)
        /\ CommittingDraw =>
               /\ Len(pills') = Len(pills) + 1
               /\ LET new == pills'[Len(pills')]
                  IN  /\ new.id \notin Ids(pills)
                      /\ TotalArea(pills') = TotalArea(pills) + new.width * new.height ]_vars

\* A click has cut a pill in two by the vertical line through the pointer and
\* the two parts together cover the area of the pill.
C22_Witness ==
    /\ ClickedInIdle
    /\ Len(pills) = Len(prev.pills) + 1
    /\ \E i \in 1..Len(prev.pills) : CutH(prev.pills[i], last.x, last.y)
    /\ TotalArea(prev.pills) > 0
    /\ TotalArea(pills) = TotalArea(prev.pills)

====
